---- MODULE Spec2Model ----
(***************************************************************************)
(* Group-by aggregation of pygdf (pygdf/grouper.py): the Appender that     *)
(* batches scalar appends into a Column, the recursive sort-and-segment    *)
(* generator Grouper._group_level, and Grouper.agg / Grouper._form_groups. *)
(*                                                                         *)
(* Three specifications share this module:                                 *)
(*   SpecAppender  one call sequence (append / flush / get) applied to an  *)
(*                 Appender per staging budget                             *)
(*   SpecGroup     the generator _group_level pulled group by group        *)
(*   Spec          one call of Grouper(df, by).agg(args)                   *)
(***************************************************************************)
EXTENDS Integers, Sequences, FiniteSets, TLC

VARIABLES
    a_dtype,      \* Appender runs: dtype of the parent column
    a_apps,       \* Appender runs: bufsize -> Appender object
    a_log,        \* Appender runs: the values passed to append(), in call order
    a_gets,       \* Appender runs: what each get() returned, per bufsize
    a_xflush,     \* Appender runs: number of explicit flush() calls made
    data,         \* the table: [cols |-> column names, cells |-> rows]
    by,           \* the key list (Grouper._by / levels)
    yielded,      \* generator runs: the (indices, grouped) pairs yielded so far
    gdone,        \* generator runs: the generator is exhausted
    args,         \* agg: the aggregation request
    pc,           \* agg: position of the call
    functors,     \* agg: OrderedDict column -> list of functors
    fmap,         \* _form_groups: functors_mapping
    appenders,    \* _form_groups: OrderedDict output name -> Appender
    requested,    \* _form_groups: number of next() calls made on the generator
    pulled,       \* _form_groups: number of groups the generator has yielded
    outdf,        \* _form_groups: the DataFrame returned
    err           \* the exception that ended the call

appVars == <<a_dtype, a_apps, a_log, a_gets, a_xflush>>
genVars == <<yielded, gdone>>
aggVars == <<args, pc, functors, fmap, appenders, requested, pulled, outdf, err>>
vars == <<a_dtype, a_apps, a_log, a_gets, a_xflush, data, by, yielded, gdone,
          args, pc, functors, fmap, appenders, requested, pulled, outdf, err>>

(***************************************************************************)
(* Bounds of the model.                                                    *)
(***************************************************************************)
MaxAppends == 3
MaxFlush == 2
MaxGets == 2
MaxRows == 3
MaxAggRows == 2

(***************************************************************************)
(* Generic helpers.                                                        *)
(***************************************************************************)
None == <<"None">>

Max(a, b) == IF a >= b THEN a ELSE b

Range(s) == {s[i] : i \in 1..Len(s)}

Contains(s, x) == \E i \in 1..Len(s) : s[i] = x

RECURSIVE Remove(_, _)
Remove(s, x) ==
    IF s = <<>> THEN <<>>
    ELSE IF Head(s) = x THEN Remove(Tail(s), x)
    ELSE <<Head(s)>> \o Remove(Tail(s), x)

(***************************************************************************)
(* Scalars.  A number is <<"num", whole, tenths>> (1.5 is <<"num",1,5>>);  *)
(* the result of a reduction over a column slice is kept as the term       *)
(* <<"agg", function name, column, cells>>, the reductions being           *)
(* collaborators of this code.                                             *)
(***************************************************************************)
Num(w, f) == <<"num", w, f>>

Dtypes == {"int32", "float64"}

ItemSize(dtype) == IF dtype = "int32" THEN 4 ELSE 8

\* numpy's conversion of one queued scalar to the column's dtype
AsType(dtype, v) ==
    IF v[1] = "num"
    THEN IF dtype = "int32" THEN Num(v[2], 0) ELSE v
    ELSE <<"astype", <<dtype, v>>>>

\* np.asarray(queue, dtype=...)
AsArray(queue, dtype) == [i \in 1..Len(queue) |-> AsType(dtype, queue[i])]

(***************************************************************************)
(* class Appender                                                          *)
(***************************************************************************)
TEN_MB == 10000000

AppenderNew(dtype, bufsize) ==
    [dtype |-> dtype,
     max_q_sz |-> Max(bufsize \div ItemSize(dtype), 1),
     queue |-> <<>>,
     result |-> <<>>]

\* flush() without the queue reset of line 41
AppenderFlush_keepqueue(a) ==
    [a EXCEPT !.result = a.result \o AsArray(a.queue, a.dtype)]

\* flush(): the queue, converted, goes after the result; the queue is emptied
AppenderFlush(a) ==
    [a EXCEPT !.result = a.result \o AsArray(a.queue, a.dtype),
              !.queue = <<>>]

\* append(): queue the value, flush when the queue is full
AppenderAppend(a, value) ==
    LET q == [a EXCEPT !.queue = Append(a.queue, value)]
    IN  IF Len(q.queue) >= q.max_q_sz THEN AppenderFlush(q) ELSE q

\* get() without the flush of line 44
AppenderGet_noflush(a) == [app |-> a, col |-> a.result]

\* get() flushes, then returns the result column's data under the parent's label
AppenderGet(a) ==
    LET f == AppenderFlush(a)
    IN  [app |-> f, col |-> f.result]

(***************************************************************************)
(* SpecAppender: the same calls made on one Appender per staging budget.   *)
(***************************************************************************)
Bufsizes == {1, 8, 16, TEN_MB}

AValues == {Num(w, f) : w \in {0, 1}, f \in {0, 5}}

AInit ==
    /\ a_dtype \in Dtypes
    /\ a_apps = [b \in Bufsizes |-> AppenderNew(a_dtype, b)]
    /\ a_log = <<>>
    /\ a_gets = <<>>
    /\ a_xflush = 0
    /\ data = None /\ by = None /\ yielded = None /\ gdone = None
    /\ args = None /\ pc = None /\ functors = None /\ fmap = None
    /\ appenders = None /\ requested = None /\ pulled = None
    /\ outdf = None /\ err = None

AAppend(v) ==
    /\ Len(a_log) < MaxAppends
    /\ a_apps' = [b \in Bufsizes |-> AppenderAppend(a_apps[b], v)]
    /\ a_log' = Append(a_log, v)
    /\ UNCHANGED <<a_dtype, a_gets, a_xflush>>

AFlush ==
    /\ a_xflush < MaxFlush
    /\ a_apps' = [b \in Bufsizes |-> AppenderFlush(a_apps[b])]
    /\ a_xflush' = a_xflush + 1
    /\ UNCHANGED <<a_dtype, a_log, a_gets>>

AGet ==
    /\ Len(a_gets) < MaxGets
    /\ a_apps' = [b \in Bufsizes |-> AppenderGet(a_apps[b]).app]
    /\ a_gets' = Append(a_gets, [n |-> Len(a_log),
                                 col |-> [b \in Bufsizes |-> AppenderGet(a_apps[b]).col]])
    /\ UNCHANGED <<a_dtype, a_log, a_xflush>>

ANext ==
    \/ \E v \in AValues : AAppend(v) /\ UNCHANGED <<data, by, genVars, aggVars>>
    \/ AFlush /\ UNCHANGED <<data, by, genVars, aggVars>>
    \/ AGet /\ UNCHANGED <<data, by, genVars, aggVars>>

SpecAppender == AInit /\ [][ANext]_vars

\* C6: every get() returns the same column whatever the staging budget
\* (bufsize 1, giving a queue of one, up to 10,000,000).
C6_BatchSizeInvariance ==
    \A i \in 1..Len(a_gets) : \A b1, b2 \in Bufsizes :
        a_gets[i].col[b1] = a_gets[i].col[b2]

C6_Witness ==
    /\ Len(a_gets) >= 1
    /\ a_gets[Len(a_gets)].n >= 2
    /\ \E b1, b2 \in Bufsizes : a_apps[b1].max_q_sz = 1 /\ a_apps[b2].max_q_sz > MaxAppends

\* C7 as stated: every get() returns exactly the appended values, in append
\* order, each once.
C7_GetReturnsAppendedValues ==
    \A i \in 1..Len(a_gets) : \A b \in Bufsizes :
        a_gets[i].col[b] = SubSeq(a_log, 1, a_gets[i].n)

\* C7 amended: every get() returns the appended values, each converted to the
\* dtype of the builder's column, in append order, each once; two gets in a
\* row return the same content.
C7_GetReturnsConvertedValues ==
    /\ \A i \in 1..Len(a_gets) : \A b \in Bufsizes :
          a_gets[i].col[b] = AsArray(SubSeq(a_log, 1, a_gets[i].n), a_dtype)
    /\ \A i \in 1..Len(a_gets) : \A j \in 1..Len(a_gets) :
          a_gets[i].n = a_gets[j].n => a_gets[i].col = a_gets[j].col

C7_Witness ==
    /\ Len(a_gets) = 2
    /\ a_gets[1].n = a_gets[2].n
    /\ a_gets[1].n >= 2
    /\ a_xflush >= 1
    /\ a_dtype = "int32"
    /\ \E i \in 1..Len(a_log) : a_log[i][3] # 0

(***************************************************************************)
(* The DataFrame collaborator, as far as _group_level uses it.  A frame is *)
(* a view of the table: its columns, its rows in their current order (as   *)
(* row numbers of the table, which is what gives a row its identity) and   *)
(* the column serving as index.                                            *)
(***************************************************************************)
\* the None closing the last (s, e) pair; offsets are never negative
NoneEnd == 0 - 1

Frame(d) ==
    [cols |-> d.cols, rows |-> [i \in 1..Len(d.cells) |-> i], index |-> "RangeIndex"]

\* df.set_index(col): col becomes the index and is no longer a column
SetIndex(df, col) ==
    [cols |-> Remove(df.cols, col), rows |-> df.rows, index |-> col]

\* value of the index at 0-based offset s
IndexData(d, df, s) == d.cells[df.rows[s + 1]][df.index]

RECURSIVE InsertSorted(_, _, _, _)
InsertSorted(d, col, sorted, r) ==
    IF sorted = <<>> THEN <<r>>
    ELSE IF d.cells[Head(sorted)][col] <= d.cells[r][col]
         THEN <<Head(sorted)>> \o InsertSorted(d, col, Tail(sorted), r)
         ELSE <<r>> \o sorted

RECURSIVE SortRows(_, _, _)
SortRows(d, col, rows) ==
    IF rows = <<>> THEN <<>>
    ELSE InsertSorted(d, col, SortRows(d, col, SubSeq(rows, 1, Len(rows) - 1)),
                      rows[Len(rows)])

\* df.sort_index(): ascending by the index, equal values keeping their order
SortIndex(d, df) == [df EXCEPT !.rows = SortRows(d, df.index, df.rows)]

RECURSIVE SegmentsFrom(_, _, _)
SegmentsFrom(d, df, s) ==
    IF s >= Len(df.rows) THEN <<>>
    ELSE IF s = 0 \/ IndexData(d, df, s) # IndexData(d, df, s - 1)
         THEN <<s>> \o SegmentsFrom(d, df, s + 1)
         ELSE SegmentsFrom(d, df, s + 1)

\* df.index.find_segments(): the 0-based offsets at which a run of equal
\* index values starts
FindSegments(d, df) == SegmentsFrom(d, df, 0)

\* df[s:e]
Slice(df, s, e) ==
    [df EXCEPT !.rows = SubSeq(df.rows, s + 1, IF e = NoneEnd THEN Len(df.rows) ELSE e)]

(***************************************************************************)
(* Grouper._group_level                                                    *)
(***************************************************************************)
\* zip(segs, segs[1:]): the pairs without the closing None
SegPairs_nolast(segs) ==
    [i \in 1..(Len(segs) - 1) |-> <<segs[i], segs[i + 1]>>]

\* zip(segs, segs[1:] + [None])
SegPairs(segs) ==
    [i \in 1..Len(segs) |->
        <<segs[i], IF i < Len(segs) THEN segs[i + 1] ELSE NoneEnd>>]

\* the index read at offset 0 instead of int(s)
GroupIndex_first(d, df, s) == Num(IndexData(d, df, 0), 0)

\* df.index.as_column().data[int(s)]
GroupIndex(d, df, s) == Num(IndexData(d, df, s), 0)

RECURSIVE GroupLevel(_, _, _, _)
RECURSIVE SegmentLoop(_, _, _, _, _)

\* the body of "for s, e in zip(...)", for the pairs still to visit
SegmentLoop(d, df, pairs, innerlevels, indices) ==
    IF pairs = <<>> THEN <<>>
    ELSE LET s == Head(pairs)[1]
             e == Head(pairs)[2]
             grouped == Slice(df, s, e)
             inner_indices == Append(indices, GroupIndex(d, df, s))
             here == IF Len(grouped.rows) > 0
                     THEN IF innerlevels # <<>>
                          THEN GroupLevel(d, grouped, innerlevels, inner_indices)
                          ELSE << <<inner_indices, grouped>> >>
                     ELSE <<>>
         IN  here \o SegmentLoop(d, df, Tail(pairs), innerlevels, indices)

\* the sequence of (indices, grouped_df) the generator yields
GroupLevel(d, df, levels, indices) ==
    LET col == Head(levels)
        innerlevels == Tail(levels)
        sdf == SortIndex(d, SetIndex(df, col))
        segs == FindSegments(d, sdf)
    IN  SegmentLoop(d, sdf, SegPairs(segs), innerlevels, indices)

(***************************************************************************)
(* SpecGroup: _group_level(T, K) pulled one group at a time.               *)
(***************************************************************************)
GroupCols == <<"k", "j", "v">>

\* tables of 0..MaxRows rows; v holds the row number, so its values are all
\* distinct, while the two-valued columns k and j repeat
GroupTables ==
    {[cols |-> GroupCols,
      cells |-> [i \in 1..n |-> [k |-> ks[i], j |-> js[i], v |-> i]]] :
        <<n, ks, js>> \in
            UNION {{<<m, a, b>> : a \in [1..m -> {0, 1}],
                                  b \in [1..m -> {0, 1}]} : m \in 0..MaxRows}}

\* the non-empty lists of distinct columns
KeyLists(cols) ==
    {<<a>> : a \in Range(cols)}
    \cup {<<a, b>> : <<a, b>> \in {p \in Range(cols) \X Range(cols) : p[1] # p[2]}}
    \cup {<<a, b, c>> : <<a, b, c>> \in
            {p \in Range(cols) \X Range(cols) \X Range(cols) :
                p[1] # p[2] /\ p[1] # p[3] /\ p[2] # p[3]}}

GInit ==
    /\ data \in GroupTables
    /\ by \in KeyLists(GroupCols)
    /\ yielded = <<>>
    /\ gdone = FALSE
    /\ a_dtype = None /\ a_apps = None /\ a_log = None /\ a_gets = None
    /\ a_xflush = None
    /\ args = None /\ pc = None /\ functors = None /\ fmap = None
    /\ appenders = None /\ requested = None /\ pulled = None
    /\ outdf = None /\ err = None

AllGroups == GroupLevel(data, Frame(data), by, <<>>)

\* next() on the generator yields a group
GYield ==
    /\ ~gdone
    /\ Len(yielded) < Len(AllGroups)
    /\ yielded' = Append(yielded, AllGroups[Len(yielded) + 1])
    /\ UNCHANGED <<gdone, data, by, appVars, aggVars>>

\* next() on the generator finds it exhausted
GStop ==
    /\ ~gdone
    /\ Len(yielded) = Len(AllGroups)
    /\ gdone' = TRUE
    /\ UNCHANGED <<yielded, data, by, appVars, aggVars>>

GNext == GYield \/ GStop

SpecGroup == GInit /\ [][GNext]_vars

\* how often row r of the table occurs in the sub-tables yielded
Occurrences(r) ==
    Cardinality({p \in UNION {{<<g, i>> : i \in 1..Len(yielded[g][2].rows)} :
                              g \in 1..Len(yielded)} :
                    yielded[p[1]][2].rows[p[2]] = r})

\* C1: the sub-tables yielded by _group_level(T, K) hold every row of T
\* exactly once: never a row twice, and no row missing once the generator
\* is exhausted.
C1_Partition ==
    /\ \A r \in 1..Len(data.cells) : Occurrences(r) <= 1
    /\ gdone => \A r \in 1..Len(data.cells) : Occurrences(r) = 1

C1_Witness ==
    /\ gdone
    /\ Len(by) = 2
    /\ Len(yielded) >= 2
    /\ \E g \in 1..Len(yielded) : Len(yielded[g][2].rows) >= 2

\* the key tuple of row r, as the scalars the generator reports
KeyTuple(r) == [i \in 1..Len(by) |-> Num(data.cells[r][by[i]], 0)]

RECURSIVE LexLess(_, _)
LexLess(a, b) ==
    IF a = <<>> THEN FALSE
    ELSE \/ Head(a)[2] < Head(b)[2]
         \/ Head(a)[2] = Head(b)[2] /\ LexLess(Tail(a), Tail(b))

RECURSIVE LexInsert(_, _)
LexInsert(sorted, r) ==
    IF sorted = <<>> THEN <<r>>
    ELSE IF LexLess(KeyTuple(r), KeyTuple(Head(sorted)))
         THEN <<r>> \o sorted
         ELSE <<Head(sorted)>> \o LexInsert(Tail(sorted), r)

RECURSIVE LexSorted(_)
LexSorted(n) == IF n = 0 THEN <<>> ELSE LexInsert(LexSorted(n - 1), n)

RECURSIVE CutAtKeyChange(_)
CutAtKeyChange(rows) ==
    IF rows = <<>> THEN <<>>
    ELSE LET rest == CutAtKeyChange(Tail(rows))
         IN  IF rest # <<>> /\ rest[1][1] = KeyTuple(Head(rows))
             THEN << <<rest[1][1], <<Head(rows)>> \o rest[1][2]>> >> \o Tail(rest)
             ELSE << <<KeyTuple(Head(rows)), <<Head(rows)>> >> >> \o rest

\* the table sorted lexicographically by all key columns, cut wherever the
\* key tuple changes
FlatGroups == CutAtKeyChange(LexSorted(Len(data.cells)))

\* C10: the nested traversal yields the (key tuple, sub-table) pairs of the
\* lexicographic sort cut at key changes, in that order: every row of a
\* sub-table has the yielded key tuple, and key tuples strictly ascend.
C10_NestedEqualsFlat ==
    /\ Len(yielded) <= Len(FlatGroups)
    /\ gdone => Len(yielded) = Len(FlatGroups)
    /\ \A g \in 1..Len(yielded) :
          /\ yielded[g][1] = FlatGroups[g][1]
          /\ yielded[g][2].rows = FlatGroups[g][2]
          /\ \A i \in 1..Len(yielded[g][2].rows) :
                KeyTuple(yielded[g][2].rows[i]) = yielded[g][1]
    /\ \A g \in 1..(Len(yielded) - 1) : LexLess(yielded[g][1], yielded[g + 1][1])

C10_Witness ==
    /\ gdone
    /\ Len(by) = 2
    /\ Len(yielded) >= 2
    /\ \E g \in 1..(Len(yielded) - 1) : yielded[g][1][1] = yielded[g + 1][1][1]
    /\ \E g \in 1..Len(yielded) : Len(yielded[g][2].rows) >= 2

(***************************************************************************)
(* Python values the aggregation passes around.                            *)
(*   <<"str", n>>   the string n, used as an aggregate name                *)
(*   <<"fn", n>>    a callable whose __name__ is n                         *)
(*   <<"raise", kind, line, what>>   an exception raised at a source line  *)
(* An OrderedDict is [keys |-> the keys in insertion order, val |-> map].  *)
(***************************************************************************)
Str(n) == <<"str", n>>
Fn(n) == <<"fn", n>>
PyNone == <<"NoneType", "None">>
Raise(kind, line, what) == <<"raise", kind, line, what>>
NoErr == None

OdEmpty == [keys |-> <<>>, val |-> <<>>]

\* od[k] = v: a new key goes last, an existing key keeps its place
OdSet(od, k, v) ==
    LET ks == IF Contains(od.keys, k) THEN od.keys ELSE Append(od.keys, k)
    IN  [keys |-> ks, val |-> [x \in Range(ks) |-> IF x = k THEN v ELSE od.val[x]]]

\* dtype of a column of the table: the key columns are integer columns
ColDtype(col) == IF col \in {"k", "j"} THEN "int32" ELSE "float64"

(***************************************************************************)
(* class Grouper                                                           *)
(***************************************************************************)
NAMED_FUNCTIONS ==
    [n \in {"mean", "std", "min", "max", "count"} |-> Fn(n)]

\* Grouper.__init__: the columns that are not keys
ValColumns(d, levels) ==
    LET RECURSIVE Keep(_)
        Keep(cols) ==
            IF cols = <<>> THEN <<>>
            ELSE IF Contains(levels, Head(cols)) THEN Keep(Tail(cols))
            ELSE <<Head(cols)>> \o Keep(Tail(cols))
    IN  Keep(d.cols)

\* _NAMED_FUNCTIONS.get(x): None for an unknown name instead of KeyError
GetFunction_get(x) ==
    IF x[1] = "str"
    THEN IF x[2] \in DOMAIN NAMED_FUNCTIONS THEN NAMED_FUNCTIONS[x[2]] ELSE PyNone
    ELSE x

\* agg._get_function
GetFunction(x) ==
    IF x[1] = "str"
    THEN IF x[2] \in DOMAIN NAMED_FUNCTIONS
         THEN NAMED_FUNCTIONS[x[2]]
         ELSE Raise("KeyError", 169, x[2])
    ELSE x

\* [_get_function(x) for x in xs]: the list, or the first exception
GetFunctions(xs) ==
    LET rs == [i \in 1..Len(xs) |-> GetFunction(xs[i])]
        bad == {i \in 1..Len(xs) : rs[i][1] = "raise"}
    IN  IF bad = {} THEN [err |-> NoErr, val |-> rs]
        ELSE [err |-> rs[CHOOSE i \in bad : \A j \in bad : i <= j], val |-> <<>>]

\* agg, list form: every value column gets all the functions
RECURSIVE ListFunctors(_, _)
ListFunctors(xs, val_columns) ==
    IF val_columns = <<>> THEN [err |-> NoErr, val |-> <<>>]
    ELSE LET fs == GetFunctions(xs)
             rest == ListFunctors(xs, Tail(val_columns))
         IN  IF fs.err # NoErr THEN fs
             ELSE [err |-> NoErr, val |-> << <<Head(val_columns), fs.val>> >> \o rest.val]

\* the mapping form without _get_function: names stay strings
DictFunctors_unresolved(items) ==
    IF items = <<>> THEN [err |-> NoErr, val |-> <<>>]
    ELSE [err |-> NoErr,
          val |-> [i \in 1..Len(items) |->
                      <<items[i][1],
                        IF items[i][2][1] = "list" THEN items[i][2][2]
                        ELSE <<items[i][2][2]>> >>]]

\* agg, mapping form: each named column gets its own function or list
RECURSIVE DictFunctors(_)
DictFunctors(items) ==
    IF items = <<>> THEN [err |-> NoErr, val |-> <<>>]
    ELSE LET k == Head(items)[1]
             v == Head(items)[2]
             fs == IF v[1] = "list" THEN GetFunctions(v[2]) ELSE GetFunctions(<<v[2]>>)
             rest == DictFunctors(Tail(items))
         IN  IF fs.err # NoErr THEN fs
             ELSE IF rest.err # NoErr THEN rest
             ELSE [err |-> NoErr, val |-> << <<k, fs.val>> >> \o rest.val]

\* agg: the request normalised to functors, or the exception raised
AggFunctors(a, val_columns) ==
    IF a[1] = "list" THEN ListFunctors(a[2], val_columns)
    ELSE IF a[1] = "dict" THEN DictFunctors(a[2])
    ELSE ListFunctors(<<a[2]>>, val_columns)

\* 'column {:r} not found'.format(k): 'r' is no format code of str.__format__,
\* so the call raises instead of returning the message
FormatNotFound(k) ==
    [ok |-> FALSE, text |-> "Unknown format code 'r' for object of type 'str'"]

\* raise NameError('column {:r} not found'.format(k))
RaiseNotFound(k) ==
    IF FormatNotFound(k).ok
    THEN Raise("NameError", 98, FormatNotFound(k).text)
    ELSE Raise("ValueError", 98, FormatNotFound(k).text)

\* _form_groups: "for functor in vs" of a column with several functors
RECURSIVE MultiLoop(_, _, _, _)
MultiLoop(k, vs, apps, cur) ==
    IF vs = <<>> THEN [err |-> NoErr, apps |-> apps, cur |-> cur]
    ELSE LET functor == Head(vs)
         IN  IF functor[1] # "fn"
             THEN [err |-> Raise("AttributeError", 106, "__name__"),
                   apps |-> apps, cur |-> cur]
             ELSE LET newk == k \o "_" \o functor[2]
                  IN  MultiLoop(k, Tail(vs),
                                OdSet(apps, newk, AppenderNew(ColDtype(k), TEN_MB)),
                                OdSet(cur, newk, functor))

\* _form_groups: the loop over functors.items() building the plan
RECURSIVE ValueLoop(_, _, _, _)
ValueLoop(d, items, apps, fm) ==
    IF items = <<>> THEN [err |-> NoErr, apps |-> apps, fmap |-> fm]
    ELSE LET k == Head(items)[1]
             vs == Head(items)[2]
         IN  IF ~Contains(d.cols, k)
             THEN [err |-> RaiseNotFound(k), apps |-> apps, fmap |-> fm]
             ELSE IF Len(vs) = 1
             THEN ValueLoop(d, Tail(items),
                            OdSet(apps, k, AppenderNew(ColDtype(k), TEN_MB)),
                            OdSet(fm, k, OdSet(OdEmpty, k, vs[1])))
             ELSE LET r == MultiLoop(k, vs, apps, OdEmpty)
                  IN  IF r.err # NoErr
                      THEN [err |-> r.err, apps |-> r.apps, fmap |-> fm]
                      ELSE ValueLoop(d, Tail(items), r.apps, OdSet(fm, k, r.cur))

\* _form_groups: the appenders of the "by" columns
RECURSIVE ByAppenders(_, _)
ByAppenders(levels, apps) ==
    IF levels = <<>> THEN apps
    ELSE ByAppenders(Tail(levels),
                     OdSet(apps, Head(levels), AppenderNew(ColDtype(Head(levels)), TEN_MB)))

\* _form_groups up to the grouping loop: appenders and functors_mapping
FormPlan(d, levels, fs) == ValueLoop(d, fs, ByAppenders(levels, OdEmpty), OdEmpty)

\* functor(grp[k]): the reduction of column k over the rows of the group
CallFunctor(functor, d, grp, k) ==
    IF functor[1] = "fn"
    THEN <<"agg", functor[2], k, [i \in 1..Len(grp.rows) |-> d.cells[grp.rows[i]][k]]>>
    ELSE Raise("TypeError", 115, "object is not callable")

\* for k, v in zip(self._by, idx): appenders[k].append(v)
RECURSIVE KeyAppends(_, _, _)
KeyAppends(levels, idx, apps) ==
    IF levels = <<>> \/ idx = <<>> THEN apps
    ELSE KeyAppends(Tail(levels), Tail(idx),
                    [apps EXCEPT !.val[Head(levels)] = AppenderAppend(@, Head(idx))])

\* for newk, functor in functors_mapping[k].items(): append the reduction
RECURSIVE FunctorLoop(_, _, _, _, _, _)
FunctorLoop(d, grp, k, od, i, apps) ==
    IF i > Len(od.keys) THEN [err |-> NoErr, apps |-> apps]
    ELSE LET newk == od.keys[i]
             r == CallFunctor(od.val[newk], d, grp, k)
         IN  IF r[1] = "raise" THEN [err |-> r, apps |-> apps]
             ELSE FunctorLoop(d, grp, k, od, i + 1,
                              [apps EXCEPT !.val[newk] = AppenderAppend(@, r)])

\* for k in grp.columns: functors_mapping[k] must exist
RECURSIVE ColumnLoop(_, _, _, _, _)
ColumnLoop(d, grp, cols, fm, apps) ==
    IF cols = <<>> THEN [err |-> NoErr, apps |-> apps]
    ELSE LET k == Head(cols)
         IN  IF ~Contains(fm.keys, k)
             THEN [err |-> Raise("KeyError", 114, k), apps |-> apps]
             ELSE LET r == FunctorLoop(d, grp, k, fm.val[k], 1, apps)
                  IN  IF r.err # NoErr THEN r
                      ELSE ColumnLoop(d, grp, Tail(cols), fm, r.apps)

\* the body of the grouping loop for one (idx, grp)
GroupBody(d, levels, g, fm, apps) ==
    ColumnLoop(d, g[2], g[2].cols, fm, KeyAppends(levels, g[1], apps))

\* outdf[k] = app.get() for every appender, in the appenders' order
BuildFrame(apps) ==
    [returned |-> TRUE,
     keys |-> apps.keys,
     val |-> [k \in Range(apps.keys) |-> AppenderGet(apps.val[k]).col]]

NoFrame == [returned |-> FALSE, keys |-> <<>>, val |-> <<>>]

(***************************************************************************)
(* Spec: one call Grouper(df, by).agg(args).                               *)
(***************************************************************************)
AggSchemas ==
    {<<"k">>, <<"k", "v">>, <<"k", "v", "w">>, <<"k", "j", "v">>, <<"k", "v", "v_mean">>}

\* tables of 0..MaxAggRows rows over a schema; the key columns k and j are
\* two-valued, a value column holds the row number
AggTables ==
    {[cols |-> s,
      cells |-> [i \in 1..n |->
                    [c \in Range(s) |-> IF c = "k" THEN ks[i]
                                        ELSE IF c = "j" THEN js[i] ELSE i]]] :
        <<s, n, ks, js>> \in
            UNION {{<<t, m, a, b>> : t \in AggSchemas,
                                     a \in [1..m -> {0, 1}],
                                     b \in [1..m -> {0, 1}]} : m \in 0..MaxAggRows}}

AggKeyLists(d) ==
    {<<"k">>} \cup (IF Contains(d.cols, "j") THEN {<<"k", "j">>} ELSE {})

One(x) == <<"one", x>>
List(xs) == <<"list", xs>>
Dict(items) == <<"dict", items>>

\* a name, an unregistered name, a callable
FnSpecs == {Str("mean"), Str("count"), Str("median"), Fn("max")}

FnLists ==
    {<<>>, <<Str("mean")>>, <<Str("median")>>, <<Str("mean"), Str("count")>>,
     <<Str("mean"), Str("mean")>>, <<Fn("max"), Str("std")>>}

DictVals ==
    {One(Str("mean")), One(Str("median")), One(Fn("max")),
     List(<<Str("mean")>>), List(<<Str("mean"), Str("std")>>),
     List(<<Str("mean"), Str("mean")>>)}

DictCols == {"v", "w", "v_mean"}

Requests ==
    {One(x) : x \in FnSpecs}
    \cup {List(xs) : xs \in FnLists}
    \cup {Dict(<<>>)}
    \cup {Dict(<< <<c, v>> >>) : c \in DictCols, v \in DictVals}
    \cup {Dict(<< <<p[1], v1>>, <<p[2], v2>> >>) :
            p \in {<<"v", "w">>, <<"v", "v_mean">>, <<"w", "v">>},
            v1 \in DictVals, v2 \in DictVals}

Init ==
    /\ data \in AggTables
    /\ by \in AggKeyLists(data)
    /\ args \in Requests
    /\ pc = "agg"
    /\ functors = <<>>
    /\ fmap = OdEmpty
    /\ appenders = OdEmpty
    /\ requested = 0
    /\ pulled = 0
    /\ outdf = NoFrame
    /\ err = NoErr
    /\ a_dtype = None /\ a_apps = None /\ a_log = None /\ a_gets = None
    /\ a_xflush = None
    /\ yielded = None /\ gdone = None

\* agg: normalise the request, then enter _form_groups
Agg ==
    /\ pc = "agg"
    /\ LET r == AggFunctors(args, ValColumns(data, by))
       IN  IF r.err # NoErr
           THEN /\ pc' = "raised"
                /\ err' = r.err
                /\ UNCHANGED functors
           ELSE /\ pc' = "plan"
                /\ functors' = r.val
                /\ UNCHANGED err
    /\ UNCHANGED <<fmap, appenders, requested, pulled, outdf>>

\* _form_groups, lines 90-108: the appenders and functors_mapping
Plan ==
    /\ pc = "plan"
    /\ LET r == FormPlan(data, by, functors)
       IN  /\ appenders' = r.apps
           /\ fmap' = r.fmap
           /\ IF r.err # NoErr
              THEN pc' = "raised" /\ err' = r.err
              ELSE pc' = "groups" /\ UNCHANGED err
    /\ UNCHANGED <<functors, requested, pulled, outdf>>

Groups == GroupLevel(data, Frame(data), by, <<>>)

\* the grouping loop asks the generator for a group and processes it
PullGroup ==
    /\ pc = "groups"
    /\ pulled < Len(Groups)
    /\ requested' = requested + 1
    /\ pulled' = pulled + 1
    /\ LET r == GroupBody(data, by, Groups[pulled + 1], fmap, appenders)
       IN  /\ appenders' = r.apps
           /\ IF r.err # NoErr
              THEN pc' = "raised" /\ err' = r.err
              ELSE UNCHANGED <<pc, err>>
    /\ UNCHANGED <<functors, fmap, outdf>>

\* the grouping loop asks the generator for a group and finds it exhausted
Exhausted ==
    /\ pc = "groups"
    /\ pulled = Len(Groups)
    /\ requested' = requested + 1
    /\ pc' = "build"
    /\ UNCHANGED <<functors, fmap, appenders, pulled, outdf, err>>

\* _form_groups, lines 117-120: the result frame
Build ==
    /\ pc = "build"
    /\ outdf' = BuildFrame(appenders)
    /\ appenders' = [appenders EXCEPT
                       !.val = [k \in Range(appenders.keys) |->
                                   AppenderGet(appenders.val[k]).app]]
    /\ pc' = "done"
    /\ UNCHANGED <<functors, fmap, requested, pulled, err>>

Next ==
    \/ Agg /\ UNCHANGED <<data, by, args, appVars, genVars>>
    \/ Plan /\ UNCHANGED <<data, by, args, appVars, genVars>>
    \/ PullGroup /\ UNCHANGED <<data, by, args, appVars, genVars>>
    \/ Exhausted /\ UNCHANGED <<data, by, args, appVars, genVars>>
    \/ Build /\ UNCHANGED <<data, by, args, appVars, genVars>>

Spec == Init /\ [][Next]_vars

(***************************************************************************)
(* What the claims about agg speak of.                                     *)
(***************************************************************************)
IsDict == args[1] = "dict"

\* the functions or names a request asks for
RequestedSpecs ==
    IF args[1] = "one" THEN {args[2]}
    ELSE IF args[1] = "list" THEN Range(args[2])
    ELSE UNION {IF args[2][i][2][1] = "list" THEN Range(args[2][i][2][2])
                ELSE {args[2][i][2][2]} : i \in 1..Len(args[2])}

HasUnregistered ==
    \E x \in RequestedSpecs : x[1] = "str" /\ x[2] \notin DOMAIN NAMED_FUNCTIONS

\* the source columns a mapping names
NamedColumns == IF IsDict THEN {args[2][i][1] : i \in 1..Len(args[2])} ELSE {}

NamesAbsentColumn == \E c \in NamedColumns : ~Contains(data.cols, c)

PlanSucceeded == pc \in {"groups", "build", "done"}

\* the output names of the plan, source by source, function by function
RECURSIVE PlanOutputs(_, _)
PlanOutputs(fm, i) ==
    IF i > Len(fm.keys) THEN <<>>
    ELSE fm.val[fm.keys[i]].keys \o PlanOutputs(fm, i + 1)

RECURSIVE RequestedPairs(_)
RequestedPairs(fs) ==
    IF fs = <<>> THEN 0 ELSE Len(Head(fs)[2]) + RequestedPairs(Tail(fs))

NoAppends ==
    \A k \in Range(appenders.keys) :
        appenders.val[k].queue = <<>> /\ appenders.val[k].result = <<>>

\* C2: the table agg returns has the key columns in key order followed by
\* the value outputs in plan order, and every column has one entry per group.
C2_ResultSchema ==
    pc = "done" =>
        /\ \A c \in Range(outdf.keys) : Len(outdf.val[c]) = Len(Groups)
        /\ outdf.keys = by \o PlanOutputs(fmap, 1)

\* C3: a mapping naming a proper subset of the value columns of a table with
\* rows completes without error and returns the keys plus the named outputs.
C3_MappingSubset ==
    ( /\ IsDict
      /\ Len(data.cells) >= 1
      /\ NamedColumns # {}
      /\ NamedColumns \subseteq Range(ValColumns(data, by))
      /\ NamedColumns # Range(ValColumns(data, by))
      /\ ~HasUnregistered
      /\ pc \in {"raised", "done"} )
    => /\ pc = "done"
       /\ outdf.keys = by \o PlanOutputs(fmap, 1)

\* C4: a mapping naming a column absent from the table fails with NameError.
C4_ColumnNotFoundIsNameError ==
    ( /\ IsDict
      /\ NamesAbsentColumn
      /\ ~HasUnregistered
      /\ pc \notin {"agg", "plan"} )
    => /\ pc = "raised"
       /\ err[2] = "NameError"

C8_OutputNames ==
    PlanSucceeded =>
        LET outs == PlanOutputs(fmap, 1)
        IN  /\ \A i \in 1..Len(functors) :
                  LET k == functors[i][1]
                      vs == functors[i][2]
                  IN  IF Len(vs) = 1 THEN fmap.val[k].keys = <<k>>
                      ELSE \A j \in 1..Len(vs) :
                              Contains(fmap.val[k].keys, k \o "_" \o vs[j][2])
            /\ \A i, j \in 1..Len(outs) : i # j => outs[i] # outs[j]
            /\ \A i \in 1..Len(outs) : ~Contains(by, outs[i])
            /\ Len(outs) = RequestedPairs(functors)
            /\ Len(appenders.keys) = Len(by) + RequestedPairs(functors)

MeanForms ==
    {One(Str("mean")), List(<<Str("mean")>>), Dict(<< <<"v", List(<<Str("mean")>>)>> >>)}

\* the table of group keys and group means of v, from the lexicographic
\* reference grouping
MeanFrame ==
    [returned |-> TRUE,
     keys |-> <<"k", "v">>,
     val |-> [c \in {"k", "v"} |->
                [g \in 1..Len(FlatGroups) |->
                    IF c = "k" THEN FlatGroups[g][1][1]
                    ELSE AsType("float64",
                                <<"agg", "mean", "v",
                                  [i \in 1..Len(FlatGroups[g][2]) |->
                                      data.cells[FlatGroups[g][2][i]]["v"]]>>)]]]

\* C9: on a table with key k and value v, agg('mean'), agg(['mean']) and
\* agg({v: ['mean']}) make the same plan and return the same table.
C9_NormalizationEquivalence ==
    (data.cols = <<"k", "v">> /\ by = <<"k">> /\ args \in MeanForms) =>
        /\ pc # "raised"
        /\ pc # "agg" => functors = << <<"v", <<Fn("mean")>> >> >>
        /\ PlanSucceeded =>
              /\ fmap = OdSet(OdEmpty, "v", OdSet(OdEmpty, "v", Fn("mean")))
              /\ appenders.keys = <<"k", "v">>
        /\ pc = "done" => outdf = MeanFrame

C9_Witness ==
    /\ data.cols = <<"k", "v">>
    /\ args = One(Str("mean"))
    /\ pc = "done"
    /\ Len(outdf.val["v"]) = 2

====
